---- MODULE Spec2Model ----
(***************************************************************************)
(* Model of build_files/utils/make_update.py ("make update"): one run of   *)
(* the script, from argument parsing to process exit.  The state is the    *)
(* script's module-level variables, the part of the environment it reads   *)
(* (executable search path, sys.platform, the ../lib directory), and the   *)
(* observable history of the run (sub-processes invoked with their exit    *)
(* status, lines written to stdout and stderr, the exit status).           *)
(***************************************************************************)
EXTENDS Integers, Sequences, FiniteSets, TLC

VARIABLES
    pc,               \* position in the module body
    platform,         \* sys.platform
    path,             \* executable names shutil.which can resolve
    libRoot,          \* what ../lib is: "absent", "file" or "dir"
    fs,               \* entries of ../lib: name -> "absent" | "file" | "dir" | "wc"
    only_code,        \* args.only_code
    git_command,      \* args.git_command
    svn_command,      \* args.svn_command
    raw,              \* bytes returned by the branch query
    branch,           \* branch name after strip() and decode
    release_version,  \* None, or the string captured by the pattern
    svn_url,          \* artifact URL ("" while not assigned)
    lib_platform,     \* None, or the platform's library directory name
    listing,          \* result of os.listdir(lib_dirpath)
    idx,              \* position of the for loop in listing
    calls,            \* sub-processes invoked so far: [cmd, rc]
    out,              \* lines printed to stdout
    err,              \* messages written to stderr
    exit_code         \* process exit status, -1 while running

vars == <<pc, platform, path, libRoot, fs, only_code, git_command, svn_command,
          raw, branch, release_version, svn_url, lib_platform, listing, idx,
          calls, out, err, exit_code>>

(***************************************************************************)
(* Bounds of the model.                                                    *)
(***************************************************************************)
\* Largest number of entries ../lib holds when the run starts.
MaxEntries == 2

(***************************************************************************)
(* Python values.                                                          *)
(***************************************************************************)
None == [kind |-> "None"]
Str(s) == [kind |-> "str", val |-> s]

\* Truth value of a variable holding None or a str: None and "" are false.
Truthy(v) == v.kind = "str" /\ v.val # ""

IsSpace(c) == c \in {" ", "\t", "\n", "\r", "\f"}

RECURSIVE LStrip(_)
LStrip(s) ==
    IF Len(s) > 0 /\ IsSpace(SubSeq(s, 1, 1))
    THEN LStrip(SubSeq(s, 2, Len(s)))
    ELSE s

RECURSIVE RStrip(_)
RStrip(s) ==
    IF Len(s) > 0 /\ IsSpace(SubSeq(s, Len(s), Len(s)))
    THEN RStrip(SubSeq(s, 1, Len(s) - 1))
    ELSE s

\* bytes.strip(): whitespace removed at both ends.
Strip(s) == RStrip(LStrip(s))

\* The pattern's "." matches any character except a newline.
NoNewline(s) == \A i \in 1..Len(s) : SubSeq(s, i, i) # "\n"

\* re.search("^blender-v(.*)-release$", b).group(1), or None without a match.
\* The pattern is anchored at both ends, so the group is what lies between
\* the 9 characters of "blender-v" and the 8 characters of "-release".
ReleaseMatch(b) ==
    IF /\ Len(b) >= Len("blender-v") + Len("-release")
       /\ SubSeq(b, 1, Len("blender-v")) = "blender-v"
       /\ SubSeq(b, Len(b) - Len("-release") + 1, Len(b)) = "-release"
       /\ NoNewline(SubSeq(b, Len("blender-v") + 1, Len(b) - Len("-release")))
    THEN Str(SubSeq(b, Len("blender-v") + 1, Len(b) - Len("-release")))
    ELSE None

\* os.path.join on the running platform.
PathJoin(a, b) == IF platform = "win32" THEN a \o "\\" \o b ELSE a \o "/" \o b

lib_dirpath == PathJoin("..", "lib")

(***************************************************************************)
(* Inputs and environments.                                                *)
(***************************************************************************)
GitCommands == {"git", "mygit"}
SvnCommands == {"svn", "mysvn"}
Paths == (SUBSET {"git", "svn"}) \cup {GitCommands \cup SvnCommands}
Platforms == {"darwin", "win32", "linux"}
Names == {".svn", "darwin", "win64_vc14", "tests"}
ReturnCodes == {0, 1, 2}

\* Output of "git rev-parse --abbrev-ref HEAD"; Undecodable stands for bytes
\* that are not valid UTF-8.
Undecodable == "<invalid utf8>"
RawOutputs ==
    { "main\n", "HEAD\n", "blender-v2.81-release\n", "blender-v-release\n",
      "blender-v2.81-release-candidate\n", "xblender-v2.81-release\n",
      "blender-v4-1-release\n", Undecodable }

Kinds(n) == IF n = ".svn" THEN {"absent", "file", "dir"}
            ELSE {"absent", "file", "dir", "wc"}

Present(f) == {n \in Names : f[n] # "absent"}

Trees == {f \in [Names -> {"absent", "file", "dir", "wc"}] :
            /\ \A n \in Names : f[n] \in Kinds(n)
            /\ Cardinality(Present(f)) <= MaxEntries}

EmptyTree == [n \in Names |-> "absent"]

\* Every order os.listdir may return the entries in.
Listings(S) ==
    {s \in [1..Cardinality(S) -> S] : \A i, j \in 1..Cardinality(S) : s[i] = s[j] => i = j}

(***************************************************************************)
(* Initial state: the interpreter has started, nothing has run.            *)
(***************************************************************************)
Init ==
    /\ pc = "args"
    /\ platform \in Platforms
    /\ path \in Paths
    /\ libRoot \in {"absent", "file", "dir"}
    /\ fs \in Trees
    /\ libRoot # "dir" => fs = EmptyTree
    /\ only_code = FALSE
    /\ git_command = ""
    /\ svn_command = ""
    /\ raw = ""
    /\ branch = ""
    /\ release_version = None
    /\ svn_url = ""
    /\ lib_platform = None
    /\ listing = <<>>
    /\ idx = 1
    /\ calls = <<>>
    /\ out = <<>>
    /\ err = <<>>
    /\ exit_code = -1

env == <<platform, path>>
disk == <<libRoot, fs>>
args == <<only_code, git_command, svn_command>>
detected == <<raw, branch, release_version>>
libs == <<svn_url, lib_platform>>
loop == <<listing, idx>>

\* sys.exit(status), or the interpreter ending on an uncaught exception.
Exit(status) == pc' = "exited" /\ exit_code' = status

\* print_stage(text)
print_stage(text) == out' = out \o <<"", text, "">>

\* make_utils.call(cmd): run the command; a non-zero exit status aborts the
\* whole program with exit status 1, otherwise control returns to the caller.
call(cmd, rc, next) ==
    /\ calls' = Append(calls, [cmd |-> cmd, rc |-> rc])
    /\ IF rc = 0
       THEN pc' = next /\ exit_code' = exit_code
       ELSE Exit(1)

(***************************************************************************)
(* The module body, one action per step.                                   *)
(***************************************************************************)
parse_arguments ==
    /\ pc = "args"
    /\ only_code' \in BOOLEAN
    /\ git_command' \in GitCommands
    /\ svn_command' \in SvnCommands
    /\ pc' = "which_git"
    /\ UNCHANGED <<env, disk, detected, libs, loop, calls, out, err, exit_code>>

CheckGit ==
    /\ pc = "which_git"
    /\ IF git_command \notin path
       THEN /\ err' = Append(err, "git not found, can't update code\n")
            /\ Exit(1)
       ELSE /\ pc' = "which_svn"
            /\ UNCHANGED <<err, exit_code>>
    /\ UNCHANGED <<env, disk, args, detected, libs, loop, calls, out>>

CheckSvnOnlyForLibraries ==
    /\ pc = "which_svn"
    /\ IF ~only_code /\ svn_command \notin path
       THEN /\ err' = Append(err, "svn not found, can't update libraries\n")
            /\ Exit(1)
       ELSE /\ pc' = "branch"
            /\ UNCHANGED <<err, exit_code>>
    /\ UNCHANGED <<env, disk, args, detected, libs, loop, calls, out>>

CheckSvn ==
    /\ pc = "which_svn"
    /\ IF svn_command \notin path
       THEN /\ err' = Append(err, "svn not found, can't update libraries\n")
            /\ Exit(1)
       ELSE /\ pc' = "branch"
            /\ UNCHANGED <<err, exit_code>>
    /\ UNCHANGED <<env, disk, args, detected, libs, loop, calls, out>>

BranchQuery == <<git_command, "rev-parse", "--abbrev-ref", "HEAD">>

QueryBranch ==
    /\ pc = "branch"
    /\ \E rc \in ReturnCodes :
         /\ calls' = Append(calls, [cmd |-> BranchQuery, rc |-> rc])
         /\ IF rc # 0
            THEN /\ err' = Append(err, "Failed to get Blender git branch\n")
                 /\ Exit(1)
                 /\ raw' = raw
            ELSE /\ raw' \in RawOutputs
                 /\ pc' = "detect"
                 /\ UNCHANGED <<err, exit_code>>
    /\ UNCHANGED <<env, disk, args, branch, release_version, libs, loop, out>>

DetectRelease ==
    /\ pc = "detect"
    /\ IF raw = Undecodable
       THEN /\ Exit(1)
            /\ UNCHANGED <<branch, release_version, out>>
       ELSE /\ branch' = Strip(raw)
            /\ release_version' = ReleaseMatch(branch')
            /\ IF release_version' # None
               THEN out' = Append(out, "Using Release Blender v" \o release_version'.val)
               ELSE out' = out
            /\ pc' = "libs"
            /\ exit_code' = exit_code
    /\ UNCHANGED <<env, disk, args, raw, libs, loop, calls, err>>

\* "if not only_code": the library stage runs unless --only-code was given.
LibrariesAlwaysEnabled == TRUE

LibrariesEnabled == ~only_code

svn_branch(rv) ==
    IF Truthy(rv) THEN "tags/blender-" \o rv.val \o "-release" ELSE "trunk"

SvnUrl(rv) == "https://svn.blender.org/svnroot/bf-blender/" \o svn_branch(rv) \o "/lib/"

\* Library directory of a platform; None where no libraries are precompiled.
LibPlatform(p) ==
    IF p = "darwin" THEN Str("darwin")
    ELSE IF p = "win32" THEN Str("win64_vc14")
    ELSE None

SetupLibraries ==
    /\ pc = "libs"
    /\ IF LibrariesEnabled
       THEN /\ svn_url' = SvnUrl(release_version)
            /\ lib_platform' = LibPlatform(platform)
            /\ pc' = "checkout"
       ELSE /\ pc' = "repo"
            /\ UNCHANGED libs
    /\ UNCHANGED <<env, disk, args, detected, loop, calls, out, err, exit_code>>

\* The test made with os.path.isdir: a regular file of that name does not count.
PlatformDirIsDirectory == libRoot = "dir" /\ fs[lib_platform.val] \in {"dir", "wc"}

\* os.path.exists(lib_platform_dirpath)
PlatformDirExists == libRoot = "dir" /\ fs[lib_platform.val] # "absent"

\* The working copy a successful "svn checkout URL ../lib/<platform>" leaves.
\* It cannot succeed below a ../lib that is a regular file.
CheckedOut(rc) ==
    IF rc = 0
    THEN /\ libRoot # "file"
         /\ libRoot' = "dir"
         /\ fs' = [fs EXCEPT ![lib_platform.val] = "wc"]
    ELSE UNCHANGED disk

CheckoutLibraries ==
    /\ pc = "checkout"
    /\ IF Truthy(lib_platform) /\ ~PlatformDirExists
       THEN /\ print_stage("Checking out Precompiled Libraries")
            /\ \E rc \in ReturnCodes :
                 /\ CheckedOut(rc)
                 /\ call(<<svn_command, "checkout", svn_url \o lib_platform.val,
                           PathJoin(lib_dirpath, lib_platform.val)>>, rc, "update_stage")
       ELSE /\ pc' = "update_stage"
            /\ UNCHANGED <<disk, calls, out, exit_code>>
    /\ UNCHANGED <<env, args, detected, libs, loop, err>>

\* The stage without the os.path.isdir test: os.listdir raises when ../lib
\* is no directory, and the uncaught exception ends the process.
UpdateLibrariesStageUnguarded ==
    /\ pc = "update_stage"
    /\ print_stage("Updating Precompiled Libraries and Tests")
    /\ IF libRoot = "dir"
       THEN /\ listing' \in Listings(Present(fs))
            /\ idx' = 1
            /\ pc' = "loop"
            /\ exit_code' = exit_code
       ELSE /\ Exit(1)
            /\ UNCHANGED loop
    /\ UNCHANGED <<env, disk, args, detected, libs, calls, err>>

UpdateLibrariesStage ==
    /\ pc = "update_stage"
    /\ print_stage("Updating Precompiled Libraries and Tests")
    /\ IF libRoot = "dir"
       THEN /\ listing' \in Listings(Present(fs))
            /\ idx' = 1
            /\ pc' = "loop"
       ELSE /\ pc' = "repo"
            /\ UNCHANGED loop
    /\ UNCHANGED <<env, disk, args, detected, libs, calls, err, exit_code>>

dirname == listing[idx]
dirpath == PathJoin(lib_dirpath, dirname)

UpdatesEveryDirectory(name) ==
    /\ name # ".svn"
    /\ fs[name] \in {"dir", "wc"}

\* The loop body's tests: not ".svn", a directory, and a .svn in it or in ../lib.
UpdatesEntry(name) ==
    /\ name # ".svn"
    /\ fs[name] \in {"dir", "wc"}
    /\ (fs[name] = "wc" \/ fs[".svn"] # "absent")

LoopEntry ==
    /\ pc = "loop"
    /\ IF idx > Len(listing)
       THEN pc' = "repo" /\ idx' = idx
       ELSE IF UpdatesEntry(dirname)
       THEN pc' = "cleanup" /\ idx' = idx
       ELSE pc' = "loop" /\ idx' = idx + 1
    /\ UNCHANGED <<env, disk, args, detected, libs, listing, calls, out, err, exit_code>>

\* A call site that swallows the failure and goes on.
SvnCleanupIgnoringFailure ==
    /\ pc = "cleanup"
    /\ \E rc \in ReturnCodes :
         /\ calls' = Append(calls, [cmd |-> <<svn_command, "cleanup", dirpath>>, rc |-> rc])
         /\ pc' = "switch"
    /\ UNCHANGED <<env, disk, args, detected, libs, loop, out, err, exit_code>>

SvnCleanup ==
    /\ pc = "cleanup"
    /\ \E rc \in ReturnCodes : call(<<svn_command, "cleanup", dirpath>>, rc, "switch")
    /\ UNCHANGED <<env, disk, args, detected, libs, loop, out, err>>

SvnSwitch ==
    /\ pc = "switch"
    /\ \E rc \in ReturnCodes :
         call(<<svn_command, "switch", svn_url \o dirname, dirpath>>, rc, "update")
    /\ UNCHANGED <<env, disk, args, detected, libs, loop, out, err>>

SvnUpdate ==
    /\ pc = "update"
    /\ \E rc \in ReturnCodes : call(<<svn_command, "update", dirpath>>, rc, "loop")
    /\ idx' = idx + 1
    /\ UNCHANGED <<env, disk, args, detected, libs, listing, out, err>>

\* The repository stage with the pull left out.
UpdateRepositoryWithoutPull ==
    /\ pc = "repo"
    /\ print_stage("Updating Blender Git Repository and Submodules")
    /\ pc' = "submodule"
    /\ UNCHANGED <<env, disk, args, detected, libs, loop, calls, err, exit_code>>

UpdateRepository ==
    /\ pc = "repo"
    /\ print_stage("Updating Blender Git Repository and Submodules")
    /\ \E rc \in ReturnCodes : call(<<git_command, "pull", "--rebase">>, rc, "submodule")
    /\ UNCHANGED <<env, disk, args, detected, libs, loop, err>>

\* "if not release_version": submodules follow master.
SubmodulesToMaster == ~Truthy(release_version)

SubmoduleUpdate ==
    /\ pc = "submodule"
    /\ \E rc \in ReturnCodes :
         call(<<git_command, "submodule", "update", "--init", "--recursive">>, rc,
              IF SubmodulesToMaster THEN "foreach_checkout" ELSE "end")
    /\ UNCHANGED <<env, disk, args, detected, libs, loop, out, err>>

ForeachCheckout ==
    /\ pc = "foreach_checkout"
    /\ \E rc \in ReturnCodes :
         call(<<git_command, "submodule", "foreach", "git", "checkout", "master">>, rc,
              "foreach_pull")
    /\ UNCHANGED <<env, disk, args, detected, libs, loop, out, err>>

ForeachPull ==
    /\ pc = "foreach_pull"
    /\ \E rc \in ReturnCodes :
         call(<<git_command, "submodule", "foreach", "git", "pull", "--rebase", "origin",
                "master">>, rc, "end")
    /\ UNCHANGED <<env, disk, args, detected, libs, loop, out, err>>

\* The module body ends: the interpreter exits with status 0.
Terminate ==
    /\ pc = "end"
    /\ Exit(0)
    /\ UNCHANGED <<env, disk, args, detected, libs, loop, calls, out, err>>

Next ==
    \/ parse_arguments
    \/ CheckGit
    \/ CheckSvn
    \/ QueryBranch
    \/ DetectRelease
    \/ SetupLibraries
    \/ CheckoutLibraries
    \/ UpdateLibrariesStage
    \/ LoopEntry
    \/ SvnCleanup
    \/ SvnSwitch
    \/ SvnUpdate
    \/ UpdateRepository
    \/ SubmoduleUpdate
    \/ ForeachCheckout
    \/ ForeachPull
    \/ Terminate

Spec == Init /\ [][Next]_vars

(***************************************************************************)
(* Vocabulary of the properties, stated on the observable history.         *)
(***************************************************************************)
Banner(text) == <<"", text, "">>

\* The lines of out from position i on start with the lines of b.
BannerAt(b, i) == i + Len(b) - 1 <= Len(out) /\ SubSeq(out, i, i + Len(b) - 1) = b
Printed(text) == \E i \in 1..Len(out) : BannerAt(Banner(text), i)

Verb(c) == c.cmd[2]
IsCheckout(c) == Verb(c) = "checkout"
IsLoopCommand(c) == Verb(c) \in {"cleanup", "switch", "update"}
IsSvnCommand(c) == IsCheckout(c) \/ IsLoopCommand(c)
IsPull(c) == c.cmd = <<git_command, "pull", "--rebase">>
IsSubmoduleUpdate(c) == c.cmd = <<git_command, "submodule", "update", "--init", "--recursive">>
IsForeachCheckout(c) ==
    c.cmd = <<git_command, "submodule", "foreach", "git", "checkout", "master">>
IsForeachPull(c) ==
    c.cmd = <<git_command, "submodule", "foreach", "git", "pull", "--rebase", "origin", "master">>
IsForeach(c) == Verb(c) = "submodule" /\ c.cmd[3] = "foreach"
IsSubCommand(c) == c.cmd # BranchQuery

Positions(P(_)) == {i \in 1..Len(calls) : P(calls[i])}

\* A branch name of the form blender-v<version>-release, and its <version>.
VersionOf(b) == SubSeq(b, 10, Len(b) - 8)
IsReleaseBranch(b) ==
    /\ Len(b) >= 17
    /\ b = "blender-v" \o VersionOf(b) \o "-release"

ArtifactBase == "https://svn.blender.org/svnroot/bf-blender/"
TagsUrl(v) == ArtifactBase \o "tags/blender-" \o v \o "-release/lib/"
TrunkUrl == ArtifactBase \o "trunk/lib/"

\* The branch has been read and matched against the pattern.
Classified ==
    /\ pc \notin {"args", "which_git", "which_svn", "branch", "detect"}
    /\ pc = "exited" => raw \notin {"", Undecodable}

SubCommandFailed == \E i \in 1..Len(calls) : IsSubCommand(calls[i]) /\ calls[i].rc # 0

(***************************************************************************)
(* C1: a failing sub-command halts the run.  Whenever a sub-command (svn   *)
(* checkout, cleanup, switch, update, git pull, git submodule ...) has     *)
(* returned a non-zero status, the process has exited with a non-zero      *)
(* status, the failing command is the last one invoked, and from then on   *)
(* no command is invoked and nothing more is printed.                      *)
(***************************************************************************)
C1_HaltOnFailure ==
    /\ [](SubCommandFailed =>
            /\ pc = "exited"
            /\ exit_code \notin {-1, 0}
            /\ calls[Len(calls)].rc # 0
            /\ \A i \in 1..(Len(calls) - 1) : calls[i].rc = 0)
    /\ [][SubCommandFailed => calls' = calls /\ out' = out /\ exit_code' = exit_code]_vars

\* A switch failed after a checkout and a cleanup had succeeded.
C1_Witness ==
    /\ SubCommandFailed
    /\ Len(calls) >= 4
    /\ Verb(calls[Len(calls)]) = "switch"
    /\ pc = "exited"

(***************************************************************************)
(* C2: every checked failure exits with status 1 before any update         *)
(* command.  Once the tool checks are past, a git executable that does not *)
(* resolve, or an svn executable that does not resolve (with or without    *)
(* --only-code), means the process has exited with status 1 and invoked    *)
(* nothing, not even the branch query; a failed branch query means it has  *)
(* exited with status 1 and invoked nothing but the query.                 *)
(***************************************************************************)
C2_CheckedFailures ==
    /\ (pc \notin {"args", "which_git"} /\ git_command \notin path) =>
          pc = "exited" /\ exit_code = 1 /\ calls = <<>>
    /\ (pc \notin {"args", "which_git", "which_svn"} /\ svn_command \notin path) =>
          pc = "exited" /\ exit_code = 1 /\ calls = <<>>
    /\ (\E i \in 1..Len(calls) : calls[i].cmd = BranchQuery /\ calls[i].rc # 0) =>
          pc = "exited" /\ exit_code = 1 /\ Len(calls) = 1

\* --only-code given, git resolves, svn does not: the run has ended.
C2_Witness ==
    /\ only_code
    /\ git_command \in path
    /\ svn_command \notin path
    /\ pc = "exited"
    /\ err = <<"svn not found, can't update libraries\n">>

(***************************************************************************)
(* C4: with --only-code, no svn command (checkout, cleanup, switch,        *)
(* update) is ever invoked.                                                *)
(***************************************************************************)
C4_OnlyCodeNoSvn ==
    only_code => \A i \in 1..Len(calls) :
                    ~IsSvnCommand(calls[i]) /\ calls[i].cmd[1] # svn_command

\* A complete --only-code run on a platform whose library directory is
\* missing, beside a ../lib that holds a working copy.
C4_Witness ==
    /\ only_code
    /\ exit_code = 0
    /\ platform = "darwin"
    /\ libRoot = "dir"
    /\ fs["darwin"] = "absent"
    /\ fs["tests"] = "wc"

(***************************************************************************)
(* C6: the repository update always runs and runs last.  In a run that     *)
(* has exited with status 0, git pull --rebase and git submodule update    *)
(* --init --recursive were each invoked exactly once, in that order, every *)
(* svn command was invoked before the pull, and every command succeeded.   *)
(***************************************************************************)
C6_RepositoryUpdateLast ==
    exit_code = 0 =>
        /\ Cardinality(Positions(IsPull)) = 1
        /\ Cardinality(Positions(IsSubmoduleUpdate)) = 1
        /\ \A i \in Positions(IsPull) : \A j \in Positions(IsSubmoduleUpdate) : i < j
        /\ \A i \in Positions(IsSvnCommand) : \A j \in Positions(IsPull) : i < j
        /\ \A i \in 1..Len(calls) : calls[i].rc = 0

\* A successful run that updated libraries before the repository.
C6_Witness ==
    /\ exit_code = 0
    /\ ~only_code
    /\ Positions(IsCheckout) # {}
    /\ Positions(IsLoopCommand) # {}

(***************************************************************************)
(* C7: a missing libraries root is skipped without error.  When the update *)
(* stage is reached and ../lib does not exist, the step prints the stage   *)
(* banner, invokes nothing and passes control to the repository update;    *)
(* and while ../lib does not exist no cleanup, switch or update has been   *)
(* invoked.                                                                *)
(***************************************************************************)
C7_MissingRootSkipped ==
    /\ [][(pc = "update_stage" /\ libRoot = "absent") =>
            /\ out' = out \o Banner("Updating Precompiled Libraries and Tests")
            /\ calls' = calls
            /\ exit_code' = exit_code
            /\ pc' = "repo"]_vars
    /\ [](libRoot = "absent" => Positions(IsLoopCommand) = {})

\* The run went through the update stage without a ../lib and finished.
C7_Witness ==
    /\ ~only_code
    /\ libRoot = "absent"
    /\ Printed("Updating Precompiled Libraries and Tests")
    /\ Positions(IsPull) # {}
    /\ exit_code = 0

ReceivesCommands(n) ==
    /\ fs[n] \in {"dir", "wc"}
    /\ n # ".svn"
    /\ (fs[n] = "wc" \/ fs[".svn"] # "absent")

EntryCommands(n) ==
    << <<svn_command, "cleanup", PathJoin(lib_dirpath, n)>>,
       <<svn_command, "switch", svn_url \o n, PathJoin(lib_dirpath, n)>>,
       <<svn_command, "update", PathJoin(lib_dirpath, n)>> >>

RECURSIVE ExpectedCommands(_)
ExpectedCommands(l) ==
    IF l = <<>> THEN <<>>
    ELSE (IF ReceivesCommands(Head(l)) THEN EntryCommands(Head(l)) ELSE <<>>)
            \o ExpectedCommands(Tail(l))

LoopCalls == SelectSeq(calls, IsLoopCommand)

LoopOver ==
    /\ ~only_code
    /\ libRoot = "dir"
    /\ \/ pc \in {"repo", "submodule", "foreach_checkout", "foreach_pull", "end"}
       \/ exit_code = 0

(***************************************************************************)
(* C8: the library update loop.  An entry of ../lib receives svn commands  *)
(* if and only if it is a directory, is not named .svn, and holds a .svn   *)
(* or ../lib holds one.  The cleanup, switch and update commands invoked   *)
(* so far are a prefix of: for each such entry in listing order, cleanup   *)
(* of the entry, switch of the entry to <artifact URL><entry name>, update *)
(* of the entry; every command but the last invoked has succeeded; and     *)
(* when the loop is over, that sequence has been invoked in full over a    *)
(* listing that holds every entry of ../lib once.                          *)
(***************************************************************************)
C8_LibraryUpdateLoop ==
    LET done == LoopCalls
        all == ExpectedCommands(listing)
    IN /\ Len(done) <= Len(all)
       /\ \A i \in 1..Len(done) : done[i].cmd = all[i]
       /\ \A i \in 1..(Len(done) - 1) : done[i].rc = 0
       /\ LoopOver =>
            /\ Len(done) = Len(all)
            /\ Len(listing) = Cardinality(Present(fs))
            /\ {listing[i] : i \in 1..Len(listing)} = Present(fs)

\* A finished run over a ../lib with two entries that were updated and one
\* that was passed over.
C8_Witness ==
    /\ exit_code = 0
    /\ Len(LoopCalls) = 6
    /\ \E i \in 1..Len(listing) : ~ReceivesCommands(listing[i])

PlatformMapping(p) ==
    CASE p = "darwin" -> "darwin"
      [] p = "win32" -> "win64_vc14"
      [] OTHER -> ""

CheckoutDue ==
    /\ ~only_code
    /\ pc = "checkout"
    /\ PlatformMapping(platform) # ""
    /\ ~(libRoot = "dir" /\ fs[PlatformMapping(platform)] # "absent")

(***************************************************************************)
(* C10: the fresh checkout.  The step that follows the library setup       *)
(* invokes svn checkout if and only if the platform has a library mapping  *)
(* (darwin -> darwin, win32 -> win64_vc14, none otherwise) and the         *)
(* platform directory under ../lib does not exist; no other step invokes   *)
(* it, and none does with --only-code.  The command is svn checkout        *)
(* <artifact URL><platform> <../lib/platform>; it is invoked at most once  *)
(* and before every cleanup, switch and update.                            *)
(***************************************************************************)
C10_FreshCheckout ==
    /\ [][IF CheckoutDue
          THEN /\ Len(calls') = Len(calls) + 1
               /\ calls'[Len(calls')].cmd =
                    <<svn_command, "checkout", svn_url \o PlatformMapping(platform),
                      PathJoin(lib_dirpath, PlatformMapping(platform))>>
          ELSE Positions(IsCheckout)' = Positions(IsCheckout)]_vars
    /\ [](/\ Cardinality(Positions(IsCheckout)) <= 1
          /\ \A i \in Positions(IsCheckout) : \A j \in Positions(IsLoopCommand) : i < j)

\* A finished run that checked the platform directory out and then updated it.
C10_Witness ==
    /\ exit_code = 0
    /\ platform = "win32"
    /\ Positions(IsCheckout) # {}
    /\ \E j \in Positions(IsLoopCommand) :
          calls[j].cmd = <<svn_command, "update", PathJoin(lib_dirpath, "win64_vc14")>>

(***************************************************************************)
(* C3: classification of the branch.  For every branch name of the form    *)
(* blender-v<version>-release, the empty version included, the detector    *)
(* extracts exactly <version> and the run is a RELEASE run for all later   *)
(* steps: the artifact URL is the tags URL of that version and no          *)
(* submodule foreach command is invoked.  For every other branch name the  *)
(* run is a DEVELOPMENT run: nothing is extracted, the artifact URL is the *)
(* trunk URL, and a run that completes has moved the submodules to master. *)
(***************************************************************************)
C3_Classification ==
    Classified =>
        IF IsReleaseBranch(branch)
        THEN /\ release_version = Str(VersionOf(branch))
             /\ svn_url # "" => svn_url = TagsUrl(VersionOf(branch))
             /\ Positions(IsForeach) = {}
        ELSE /\ release_version = None
             /\ svn_url # "" => svn_url = TrunkUrl
             /\ exit_code = 0 => Positions(IsForeachCheckout) # {} /\ Positions(IsForeachPull) # {}


DescriptorUrl ==
    IF IsReleaseBranch(branch) THEN TagsUrl(VersionOf(branch)) ELSE TrunkUrl

(***************************************************************************)
(* C5: artifact URLs follow the release descriptor.  Every URL passed to   *)
(* svn checkout or svn switch is, in a RELEASE run with version V (the     *)
(* branch is blender-vV-release), the tags URL .../tags/blender-V-release  *)
(* /lib/ followed by a directory name, and in a DEVELOPMENT run the trunk  *)
(* URL .../trunk/lib/ followed by a directory name.                        *)
(***************************************************************************)
C5_UrlFollowsDescriptor ==
    \A i \in 1..Len(calls) :
        Verb(calls[i]) \in {"checkout", "switch"} =>
            \E n \in Names : calls[i].cmd[3] = DescriptorUrl \o n

(***************************************************************************)
(* C9: submodule policy follows the classification.  In a RELEASE run (the *)
(* branch is blender-v<version>-release) no submodule foreach command is   *)
(* ever invoked.  In a DEVELOPMENT run the foreach commands come only      *)
(* after a successful git submodule update, checkout master before pull    *)
(* --rebase origin master, and a run that completes has invoked both.      *)
(***************************************************************************)
C9_SubmodulePolicy ==
    Classified =>
        IF IsReleaseBranch(branch)
        THEN Positions(IsForeach) = {}
        ELSE /\ \A j \in Positions(IsForeach) :
                    \E i \in Positions(IsSubmoduleUpdate) : i < j /\ calls[i].rc = 0
             /\ \A j \in Positions(IsForeachPull) :
                    \E i \in Positions(IsForeachCheckout) : i < j
             /\ \A j \in Positions(IsForeach) :
                    IsForeachCheckout(calls[j]) \/ IsForeachPull(calls[j])
             /\ exit_code = 0 =>
                    /\ Cardinality(Positions(IsForeachCheckout)) = 1
                    /\ Cardinality(Positions(IsForeachPull)) = 1

(***************************************************************************)
(* The three statements above hold of every run whose branch is not the    *)
(* release branch with the empty version.                                  *)
(***************************************************************************)
PolicyOfNamedVersions ==
    branch # "blender-v-release" =>
        /\ C3_Classification
        /\ C5_UrlFollowsDescriptor
        /\ C9_SubmodulePolicy
====
